---- MODULE Spec2Model ----
(***************************************************************************)
(* Claude Code Relay: the /v1/messages bridge of proxy/relay_server.py     *)
(* and the profile switchers.                                              *)
(*                                                                         *)
(* Spec          the streaming session of messages()/generate(), with the  *)
(*               codex subprocess and the HTTP client as the environment   *)
(* SpecPair      two such sessions in flight at once                       *)
(* SpecStderr    one session whose subprocess writes long stderr output    *)
(* SpecTranslate the per-line translation of the read loop, on its own     *)
(* SpecCwd       _select_cwd over prompts and filesystems                  *)
(* SpecTokens    count_tokens() over request bodies                        *)
(* SpecSwitch    the profile switchers cc_env_switcher.py and              *)
(*               tools/env_switcher.py over the settings files             *)
(***************************************************************************)
EXTENDS Integers, Sequences, FiniteSets, TLC

\* ------------------------------------------------------------------ bounds
MaxTime == 4        \* the clock runs 0..MaxTime
MaxLines == 2       \* stdout lines one subprocess writes
MaxErr == 1         \* writes to stderr by one subprocess
MaxPromptLen == 4   \* tokens of a prompt text
Grace == 1          \* the slack a "within a bounded time" claim allows, in ticks

Reqs == {1, 2}      \* request slots of the threaded server
None == -1          \* Python's None for a time stamp (time.time() is > 0)

\* ------------------------------------------------- subprocess output lines
\* One stdout line as json.loads sees it after .strip(): raw is the stripped
\* text, pad says the line came with surrounding blanks, json is the outcome
\* of json.loads (invalid: it raises; scalar: a value without .get; object: a
\* dict) and the other fields are the keys the loop looks at.
Line(raw, pad, json, typKind, typ, itemKind, itemType, textKind, text) ==
    [raw |-> raw, pad |-> pad, json |-> json, typKind |-> typKind, typ |-> typ,
     itemKind |-> itemKind, itemType |-> itemType, textKind |-> textKind,
     text |-> text]

Plain(raw, pad) == Line(raw, pad, "invalid", "absent", "", "absent", "", "absent", "")
Scalar(raw) == Line(raw, FALSE, "scalar", "absent", "", "absent", "", "absent", "")
Event(raw, typ) == Line(raw, FALSE, "object", "str", typ, "absent", "", "absent", "")
Item(raw, itemType, textKind, text) ==
    Line(raw, FALSE, "object", "str", "item.completed", "dict", itemType, textKind, text)

BlankLine == Plain("", TRUE)
HelloLine == Plain("hello", FALSE)
PaddedLine == Plain("hello", TRUE)
TurnLine == Event("{type:turn.completed}", "turn.completed")
AgentLine == Item("{type:item.completed,item:{type:agent_message,text:hi}}",
                  "agent_message", "str", "hi")
ReasoningLine == Item("{type:item.completed,item:{type:reasoning,text:hm}}",
                      "reasoning", "str", "hm")
CommandLine == Item("{type:item.completed,item:{type:command_execution}}",
                    "command_execution", "absent", "")
NoTextLine == Item("{type:item.completed,item:{type:agent_message,text:1}}",
                   "agent_message", "other", "")
BareItemLine == Line("{type:item.completed,item:1}", FALSE, "object", "str",
                     "item.completed", "other", "", "absent", "")
UnknownLine == Event("{type:unknown_kind}", "unknown_kind")
NoTypeLine == Line("{id:7}", FALSE, "object", "absent", "", "absent", "", "absent", "")
NullTypeLine == Line("{type:null}", FALSE, "object", "other", "", "absent", "", "absent", "")
StringLine == Scalar("\"hello\"")

BaseLines == {BlankLine, HelloLine, PaddedLine, TurnLine, AgentLine, ReasoningLine,
              CommandLine, NoTextLine, BareItemLine, UnknownLine, NoTypeLine,
              NullTypeLine, StringLine}

\* every line, with and without blanks around it
Lines == {[l EXCEPT !.pad = p] : l \in BaseLines, p \in BOOLEAN}

\* the lines the subprocess of Spec writes
StreamLines == {BlankLine, HelloLine, TurnLine, NullTypeLine}

TurnMarker == "[turn.completed]"
DefaultKind == "event"
Conversational == {"agent_message", "reasoning"}

\* text_out of one non-empty stripped line, lines 170-186; kind "nonstr" is a
\* text_out that is no str, on which line 189's text_out+"\n" raises TypeError
pretty_text(l) ==
    IF l.json # "object" THEN [kind |-> "str", text |-> l.raw, turn |-> FALSE]
    ELSE IF l.typKind = "str" /\ l.typ = "item.completed" /\ l.itemKind = "dict"
    THEN IF l.itemType \in Conversational /\ l.textKind = "str"
         THEN [kind |-> "str", text |-> l.text, turn |-> FALSE]
         ELSE [kind |-> "str", text |-> l.raw, turn |-> FALSE]
    ELSE IF l.typKind = "str" /\ l.typ = "turn.completed"
    THEN [kind |-> "str", text |-> TurnMarker, turn |-> TRUE]
    ELSE IF l.typKind = "absent"
    THEN [kind |-> "str", text |-> DefaultKind, turn |-> FALSE]
    ELSE IF l.typKind = "str"
    THEN [kind |-> "str", text |-> l.typ, turn |-> FALSE]
    ELSE [kind |-> "nonstr", text |-> "", turn |-> FALSE]

\* the loop body without the test of _pretty() of line 173
translate_always(l, pretty) ==
    IF l.raw = "" THEN [out |-> "none", text |-> "", turn |-> FALSE]
    ELSE IF pretty_text(l).kind = "str"
         THEN [out |-> "delta", text |-> pretty_text(l).text, turn |-> pretty_text(l).turn]
         ELSE [out |-> "raise", text |-> "", turn |-> FALSE]

\* one pass of the loop body over a line, lines 163-190: what is yielded
\*   none   the stripped line is empty, nothing is yielded
\*   delta  one content_block_delta with text + "\n"
\*   raise  TypeError leaves generate()
translate(l, pretty) ==
    IF l.raw = "" THEN [out |-> "none", text |-> "", turn |-> FALSE]
    ELSE LET t == IF pretty THEN pretty_text(l)
                  ELSE [kind |-> "str", text |-> l.raw, turn |-> FALSE]
         IN IF t.kind = "str"
            THEN [out |-> "delta", text |-> t.text, turn |-> t.turn]
            ELSE [out |-> "raise", text |-> "", turn |-> FALSE]

\* ------------------------------------------------------- working directory
\* A prompt text is a sequence of tokens: the marker, blanks, newlines, quote
\* characters and names. A path is the sequence of tokens that spells it.
Marker == "Working directory:"
Blanks == {" ", "\n"}
Quotes == {"\"", "'"}
LongName == "a*300"                \* a name longer than NAME_MAX
Names == {"/tmp/x", "/nope", LongName}
Tokens == {Marker} \cup Blanks \cup Quotes \cup Names

ProcessCwd == <<".">>              \* Path.cwd()
OnDisk == {<<"/tmp/x">>, <<"/work">>, ProcessCwd}

\* os.stat(path) as Path.exists() sees it: "ok", "ENOENT", or an errno that
\* Path.exists() does not swallow (ENAMETOOLONG here)
Stat(path) ==
    IF path \in OnDisk THEN "ok"
    ELSE IF \E i \in 1..Len(path) : path[i] = LongName THEN "ENAMETOOLONG"
    ELSE "ENOENT"

RECURSIVE lstrip(_, _)
lstrip(s, chars) ==
    IF s # <<>> /\ Head(s) \in chars THEN lstrip(Tail(s), chars) ELSE s

RECURSIVE rstrip(_, _)
rstrip(s, chars) ==
    IF s # <<>> /\ s[Len(s)] \in chars THEN rstrip(SubSeq(s, 1, Len(s) - 1), chars) ELSE s

\* str.strip(chars)
strip(s, chars) == rstrip(lstrip(s, chars), chars)

RECURSIVE upto_newline(_)
upto_newline(s) ==
    IF s = <<>> \/ Head(s) = "\n" THEN <<>> ELSE <<Head(s)>> \o upto_newline(Tail(s))

RECURSIVE after_marker(_)
after_marker(s) ==
    IF s = <<>> THEN <<>>
    ELSE IF Head(s) = Marker THEN Tail(s) ELSE after_marker(Tail(s))

\* _parse_cwd_from_prompt, lines 49-52. re.search finds the first marker;
\* \s* runs over blanks and newlines and (.+) takes the rest of that line. With
\* nothing but blanks behind the marker the match is blank or fails: the
\* candidate is "" or None, both false to the caller, and both <<>> here.
parse_cwd_from_prompt(text) ==
    LET rest == lstrip(after_marker(text), Blanks)
        m == upto_newline(rest)
    IN strip(strip(strip(m, Blanks), {"\""}), {"'"})

\* _select_cwd, lines 54-64: a path, or the OSError Path.exists() lets through
select_cwd(prompt_text, workdir) ==
    LET cand == parse_cwd_from_prompt(prompt_text)
        env_cwd == strip(workdir, Blanks)
        Path(p) == [kind |-> "path", path |-> p]
        Raise == [kind |-> "raise", path |-> <<>>]
    IN IF cand # <<>> /\ Stat(cand) = "ENAMETOOLONG" THEN Raise
       ELSE IF cand # <<>> /\ Stat(cand) = "ok" THEN Path(cand)
       ELSE IF env_cwd # <<>> /\ Stat(env_cwd) = "ENAMETOOLONG" THEN Raise
       ELSE IF env_cwd # <<>> /\ Stat(env_cwd) = "ok" THEN Path(env_cwd)
       ELSE Path(ProcessCwd)


\* ------------------------------------------------------------ SSE events
Ev(name) == [event |-> name, text |-> "", nl |-> FALSE, tail |-> <<>>]
Delta(text, nl, tail) ==
    [event |-> "content_block_delta", text |-> text, nl |-> nl, tail |-> tail]

Opening == <<Ev("message_start"), Ev("content_block_start")>>
Closing == <<Ev("content_block_stop"), Ev("message_delta"), Ev("message_stop")>>
NotFoundText == "Codex CLI not found"
StderrMarker == "[Codex stderr]"
TailLen == 2000

\* ------------------------------------------------------------------ state
VARIABLES
    now,                  \* time.time(), in ticks
    CFG,                  \* the settings map, read-only after load_env()
    active,               \* the request slots this run uses
    pc,                   \* where each request's handler stands
    connected,            \* the client of the request still holds the connection
    events,               \* the events generate() has yielded, in order
    workdir, hard_cut, idle_after,   \* the closure variables of messages()
    proc,                 \* "none", "running" or "exited"
    launches,             \* calls of subprocess.Popen
    pipes,                \* the pipe ends the relay holds open
    stdin,                \* "none", "closed" (written, closed) or "failed"
    outBuf, outOpen,      \* stdout pipe: lines in it, and the child holds its end
    errBuf, errOpen,      \* stderr pipe: what the child wrote to it, and the child holds its end
    written,              \* stdout lines the child has written
    start, last_turn_completed,
    exitReason, leftAt,   \* how and when the read loop ended
    trIn, trPretty, trOut,           \* SpecTranslate
    cwdPrompt, cwdEnv, cwdOut,       \* SpecCwd
    tokBody, tokOut,                 \* SpecTokens
    files, before, lastSwitch, switches   \* SpecSwitch

sessionVars == <<now, CFG, active, pc, connected, events, workdir, hard_cut, idle_after,
                 proc, launches, pipes, stdin, outBuf, outOpen, errBuf, errOpen,
                 written, start, last_turn_completed, exitReason, leftAt>>
trVars == <<trIn, trPretty, trOut>>
cwdVars == <<cwdPrompt, cwdEnv, cwdOut>>
tokVars == <<tokBody, tokOut>>
\* what a step of the session leaves alone
swVars == <<files, before, lastSwitch, switches>>
asideVars == <<trVars, cwdVars, tokVars, swVars>>
vars == <<sessionVars, trVars, cwdVars, tokVars, swVars>>

\* int(CFG[...]) clamped as messages() clamps it, lines 112-113
idle_after_of(cfg) == IF cfg.CODEX_IDLE_AFTER_TURN_SEC > 1
                      THEN cfg.CODEX_IDLE_AFTER_TURN_SEC ELSE 1
hard_cut_of(cfg) == IF cfg.CODEX_MAX_RUN_SEC > 0 THEN cfg.CODEX_MAX_RUN_SEC ELSE 0

\* _pretty(), lines 72-73
pretty(cfg) == cfg.RELAY_PRETTY_LOG = "1"

Configs == [CODEX_WORKDIR : {<<>>}, CODEX_MAX_RUN_SEC : {-1, 0, 1},
            CODEX_IDLE_AFTER_TURN_SEC : {0, 2}, RELAY_PRETTY_LOG : {"1", "0"}]
\* the built-in settings of lines 21-26, with the pause in ticks
Defaults == [CODEX_WORKDIR |-> <<>>, CODEX_MAX_RUN_SEC |-> 0,
             CODEX_IDLE_AFTER_TURN_SEC |-> 2, RELAY_PRETTY_LOG |-> "1"]

\* the prompt texts of the requests of Spec
SessionPrompts == {<<>>, <<Marker, " ", LongName>>}

LaunchOutcomes == {"ok", "FileNotFoundError", "OSError"}
\* what the child writes to stderr at once: n times the character ch
Run(ch, n) == [ch |-> ch, n |-> n]
ErrChars == {Run("x", 1), Run(" ", 1)}

\* CLOSED: generate() returned; ABORTED: an exception left generate();
\* CANCELLED: the server closed the generator; HTTP500: messages() raised
Final == {"CLOSED", "ABORTED", "CANCELLED", "HTTP500"}

InitSession(slots, cfgs) ==
    /\ now = 0
    /\ CFG \in cfgs
    /\ active = slots
    /\ pc = [r \in Reqs |-> "idle"]
    /\ connected = [r \in Reqs |-> TRUE]
    /\ events = [r \in Reqs |-> <<>>]
    /\ workdir = [r \in Reqs |-> <<>>]
    /\ hard_cut = [r \in Reqs |-> 0]
    /\ idle_after = [r \in Reqs |-> 1]
    /\ proc = [r \in Reqs |-> "none"]
    /\ launches = [r \in Reqs |-> 0]
    /\ pipes = [r \in Reqs |-> {}]
    /\ stdin = [r \in Reqs |-> "none"]
    /\ outBuf = [r \in Reqs |-> <<>>]
    /\ outOpen = [r \in Reqs |-> FALSE]
    /\ errBuf = [r \in Reqs |-> <<>>]
    /\ errOpen = [r \in Reqs |-> FALSE]
    /\ written = [r \in Reqs |-> 0]
    /\ start = [r \in Reqs |-> None]
    /\ last_turn_completed = [r \in Reqs |-> None]
    /\ exitReason = [r \in Reqs |-> "none"]
    /\ leftAt = [r \in Reqs |-> None]

IdleTr == trIn = <<>> /\ trPretty = TRUE /\ trOut = <<>>
IdleCwd == cwdPrompt = <<>> /\ cwdEnv = <<>> /\ cwdOut = [kind |-> "pending", path |-> <<>>]
IdleTok == tokBody = [kind |-> "none", len |-> 0, truthy |-> FALSE] /\ tokOut = <<>>
IdleSw == files = <<>> /\ before = <<>> /\ lastSwitch = <<>> /\ switches = 0

Init == InitSession({1}, Configs) /\ IdleTr /\ IdleCwd /\ IdleTok /\ IdleSw

\* ------------------------------------------------------- the request handler
\* messages(), lines 97-116 and 218: the closure variables are computed and the
\* generator is handed to the server; an exception of _select_cwd leaves the
\* handler before any event
Messages(r, prompt_text) ==
    /\ pc[r] = "idle"
    /\ LET d == select_cwd(prompt_text, CFG.CODEX_WORKDIR)
       IN IF d.kind = "raise"
          THEN /\ pc' = [pc EXCEPT ![r] = "HTTP500"]
               /\ UNCHANGED <<workdir, hard_cut, idle_after>>
          ELSE /\ workdir' = [workdir EXCEPT ![r] = d.path]
               /\ hard_cut' = [hard_cut EXCEPT ![r] = hard_cut_of(CFG)]
               /\ idle_after' = [idle_after EXCEPT ![r] = idle_after_of(CFG)]
               /\ pc' = [pc EXCEPT ![r] = "STARTING"]
    /\ UNCHANGED asideVars
    /\ UNCHANGED <<now, CFG, active, connected, events, proc, launches, pipes,
                   stdin, outBuf, outOpen, errBuf, errOpen, written, start,
                   last_turn_completed, exitReason, leftAt>>

\* the server closes a generator whose client is gone when it next writes a
\* yielded event: GeneratorExit at the yield, and generate() has no handler
Yield(r, evs, next) ==
    IF connected[r]
    THEN /\ events' = [events EXCEPT ![r] = @ \o evs]
         /\ pc' = [pc EXCEPT ![r] = next]
    ELSE /\ events' = events
         /\ pc' = [pc EXCEPT ![r] = "CANCELLED"]

\* a handler that tried the launch again after a failure
launch_retried(launch) == "STARTING"
\* where a failed Popen leaves the handler: the return of line 148 after the
\* answer to FileNotFoundError, the exception itself for any other
launch_failed(launch) == IF launch = "FileNotFoundError" THEN "CLOSED" ELSE "ABORTED"

\* a failed write of the prompt that ended generate()
write_fatal(write) == IF write = "ok" THEN "STREAMING" ELSE "ABORTED"
\* where the write of the prompt leaves the handler, lines 151-155: the except
\* logs the failure and generate() goes on to the loop
prompt_fed(write) == "STREAMING"

\* generate() up to the read loop, lines 119-158
GenerateStart(r, launch, write) ==
    /\ pc[r] = "STARTING"
    /\ IF ~connected[r]
       THEN /\ pc' = [pc EXCEPT ![r] = "CANCELLED"]
            /\ UNCHANGED <<events, proc, launches, pipes, stdin, outOpen, errOpen, start>>
       ELSE /\ launches' = [launches EXCEPT ![r] = @ + 1]
            /\ CASE launch = "FileNotFoundError" ->
                      /\ events' = [events EXCEPT ![r] =
                             @ \o Opening \o <<Delta(NotFoundText, FALSE, <<>>)>> \o Closing]
                      /\ pc' = [pc EXCEPT ![r] = launch_failed(launch)]
                      /\ UNCHANGED <<proc, pipes, stdin, outOpen, errOpen, start>>
                 [] launch = "OSError" ->
                      /\ events' = [events EXCEPT ![r] = @ \o Opening]
                      /\ pc' = [pc EXCEPT ![r] = launch_failed(launch)]
                      /\ UNCHANGED <<proc, pipes, stdin, outOpen, errOpen, start>>
                 [] launch = "ok" ->
                      /\ events' = [events EXCEPT ![r] = @ \o Opening]
                      /\ proc' = [proc EXCEPT ![r] = "running"]
                      /\ outOpen' = [outOpen EXCEPT ![r] = TRUE]
                      /\ errOpen' = [errOpen EXCEPT ![r] = TRUE]
                      /\ IF write = "ok"
                         THEN /\ stdin' = [stdin EXCEPT ![r] = "closed"]
                              /\ pipes' = [pipes EXCEPT ![r] = {"stdout", "stderr"}]
                         ELSE /\ stdin' = [stdin EXCEPT ![r] = "failed"]
                              /\ pipes' = [pipes EXCEPT ![r] = {"stdin", "stdout", "stderr"}]
                      /\ start' = [start EXCEPT ![r] = now]
                      /\ pc' = [pc EXCEPT ![r] = prompt_fed(write)]
    /\ UNCHANGED asideVars
    /\ UNCHANGED <<now, CFG, active, connected, workdir, hard_cut, idle_after, outBuf, errBuf,
                   written, last_turn_completed, exitReason, leftAt>>

\* the checks with the hard cutoff taken at the limit, not past it
CutoffAtLimit(r, ltc) ==
    IF hard_cut[r] # 0 /\ now - start[r] >= hard_cut[r] THEN "hard"
    ELSE IF ltc # None /\ now - ltc >= idle_after[r] THEN "idle"
    ELSE "none"

\* the checks without the test that a turn.completed was seen
CutoffUnmarked(r, ltc) ==
    IF hard_cut[r] # 0 /\ now - start[r] > hard_cut[r] THEN "hard"
    ELSE IF now - ltc >= idle_after[r] THEN "idle"
    ELSE "none"

\* the two checks after a line, lines 192-200, with ltc the value of
\* last_turn_completed after that line
Cutoff(r, ltc) ==
    IF hard_cut[r] # 0 /\ now - start[r] > hard_cut[r] THEN "hard"
    ELSE IF ltc # None /\ now - ltc >= idle_after[r] THEN "idle"
    ELSE "none"

LeaveLoop(r, why) ==
    /\ exitReason' = [exitReason EXCEPT ![r] = why]
    /\ leftAt' = [leftAt EXCEPT ![r] = now]

\* the assignment of line 179, were last_turn_completed a module global
record_turn_shared(r, t) == [q \in Reqs |-> t]
\* last_turn_completed is a local of generate(), line 158: the assignment of
\* line 179 reaches the variable of the request that runs it and no other
record_turn(r, t) == [last_turn_completed EXCEPT ![r] = t]

\* one readline() of the loop, lines 161-190: end of file ends the loop, a line
\* is translated and its delta yielded; a blank line goes on to the checks
ReadLine(r) ==
    /\ pc[r] = "STREAMING"
    /\ IF outBuf[r] = <<>>
       THEN /\ ~outOpen[r]
            /\ LeaveLoop(r, "eof")
            /\ pc' = [pc EXCEPT ![r] = "DRAINING_STDERR"]
            /\ UNCHANGED <<events, outBuf, last_turn_completed>>
       ELSE LET t == translate(Head(outBuf[r]), pretty(CFG))
                ltc == IF t.turn THEN now ELSE last_turn_completed[r]
            IN /\ outBuf' = [outBuf EXCEPT ![r] = Tail(@)]
               /\ last_turn_completed' = record_turn(r, ltc)
               /\ CASE t.out = "raise" ->
                         /\ pc' = [pc EXCEPT ![r] = "ABORTED"]
                         /\ UNCHANGED <<events, exitReason, leftAt>>
                    [] t.out = "delta" ->
                         /\ Yield(r, <<Delta(t.text, TRUE, <<>>)>>, "YIELDED")
                         /\ UNCHANGED <<exitReason, leftAt>>
                    [] t.out = "none" ->
                         /\ events' = events
                         /\ IF Cutoff(r, ltc) = "none"
                            THEN /\ pc' = pc
                                 /\ UNCHANGED <<exitReason, leftAt>>
                            ELSE /\ pc' = [pc EXCEPT ![r] = "DRAINING_STDERR"]
                                 /\ LeaveLoop(r, Cutoff(r, ltc))
    /\ UNCHANGED asideVars
    /\ UNCHANGED <<now, CFG, active, connected, workdir, hard_cut, idle_after, proc, launches,
                   pipes, stdin, outOpen, errBuf, errOpen, written, start>>

\* the generator resumes after the delta of line 188: the checks of lines 192-200
AfterYield(r) ==
    /\ pc[r] = "YIELDED"
    /\ IF Cutoff(r, last_turn_completed[r]) = "none"
       THEN /\ pc' = [pc EXCEPT ![r] = "STREAMING"]
            /\ UNCHANGED <<exitReason, leftAt>>
       ELSE /\ pc' = [pc EXCEPT ![r] = "DRAINING_STDERR"]
            /\ LeaveLoop(r, Cutoff(r, last_turn_completed[r]))
    /\ UNCHANGED asideVars
    /\ UNCHANGED <<now, CFG, active, connected, events, workdir, hard_cut, idle_after, proc,
                   launches, pipes, stdin, outBuf, outOpen, errBuf, errOpen, written,
                   start, last_turn_completed>>

\* t.strip() is non-empty
NonBlank(s) == \E i \in 1..Len(s) : s[i].ch # " "
\* the whole output, whatever its length
AllChars(s, n) == s
\* t[-2000:], by runs
RECURSIVE LastChars(_, _)
LastChars(s, n) ==
    IF s = <<>> \/ n = 0 THEN <<>>
    ELSE LET c == s[Len(s)]
         IN IF c.n >= n THEN <<Run(c.ch, n)>>
            ELSE LastChars(SubSeq(s, 1, Len(s) - 1), n - c.n) \o <<c>>

\* proc.stderr.read() returns at end of file, that is once the child holds its
\* end no more; then the tail and the closing events, lines 203-216
DrainStderr(r) ==
    /\ pc[r] = "DRAINING_STDERR"
    /\ ~errOpen[r]
    /\ LET t == LastChars(errBuf[r], TailLen)
           frag == IF errBuf[r] # <<>> /\ NonBlank(t)
                   THEN <<Delta(StderrMarker, FALSE, t)>> ELSE <<>>
       IN Yield(r, frag \o Closing, "CLOSED")
    /\ UNCHANGED asideVars
    /\ UNCHANGED <<now, CFG, active, connected, workdir, hard_cut, idle_after, proc, launches,
                   pipes, stdin, outBuf, outOpen, errBuf, errOpen, written, start,
                   last_turn_completed, exitReason, leftAt>>

\* ------------------------------------------------------------ environment
\* What the child does where the handler cannot see it is left out: to stdout
\* once the read loop has ended, and anything once the handler has ended (a
\* child that runs when the handler ends is left running by the model).
Reading == {"STREAMING", "YIELDED"}

\* the child writes a line to its stdout. The pipe hands the lines over one
\* at a time: the handler reads the same lines in the same order whatever the
\* pipe holds, and a write takes no time.
ProcWrite(r, l) ==
    /\ proc[r] = "running" /\ outOpen[r]
    /\ pc[r] \in Reading
    /\ written[r] < MaxLines
    /\ outBuf[r] = <<>>
    /\ outBuf' = [outBuf EXCEPT ![r] = Append(@, l)]
    /\ written' = [written EXCEPT ![r] = @ + 1]
    /\ UNCHANGED asideVars
    /\ UNCHANGED <<now, CFG, active, pc, connected, events, workdir, hard_cut, idle_after, proc,
                   launches, pipes, stdin, outOpen, errBuf, errOpen, start,
                   last_turn_completed, exitReason, leftAt>>

\* the child writes to its stderr, max times at most
ProcWriteErr(r, c, max) ==
    /\ proc[r] = "running" /\ errOpen[r]
    /\ Len(errBuf[r]) < max
    /\ pc[r] \notin Final
    /\ errBuf' = [errBuf EXCEPT ![r] = Append(@, c)]
    /\ UNCHANGED asideVars
    /\ UNCHANGED <<now, CFG, active, pc, connected, events, workdir, hard_cut, idle_after, proc,
                   launches, pipes, stdin, outBuf, outOpen, errOpen, written, start,
                   last_turn_completed, exitReason, leftAt>>

\* the child closes one of its streams and runs on
ProcCloseStdout(r) ==
    /\ proc[r] = "running" /\ outOpen[r]
    /\ pc[r] \in Reading
    /\ outOpen' = [outOpen EXCEPT ![r] = FALSE]
    /\ UNCHANGED asideVars
    /\ UNCHANGED <<now, CFG, active, pc, connected, events, workdir, hard_cut, idle_after, proc,
                   launches, pipes, stdin, outBuf, errBuf, errOpen, written, start,
                   last_turn_completed, exitReason, leftAt>>

ProcCloseStderr(r) ==
    /\ proc[r] = "running" /\ errOpen[r]
    /\ pc[r] \notin Final
    /\ errOpen' = [errOpen EXCEPT ![r] = FALSE]
    /\ UNCHANGED asideVars
    /\ UNCHANGED <<now, CFG, active, pc, connected, events, workdir, hard_cut, idle_after, proc,
                   launches, pipes, stdin, outBuf, outOpen, errBuf, written, start,
                   last_turn_completed, exitReason, leftAt>>

\* the child exits by itself: both of its ends close
ProcExit(r) ==
    /\ proc[r] = "running"
    /\ pc[r] \notin Final
    /\ proc' = [proc EXCEPT ![r] = "exited"]
    /\ outOpen' = [outOpen EXCEPT ![r] = FALSE]
    /\ errOpen' = [errOpen EXCEPT ![r] = FALSE]
    /\ UNCHANGED asideVars
    /\ UNCHANGED <<now, CFG, active, pc, connected, events, workdir, hard_cut, idle_after,
                   launches, pipes, stdin, outBuf, errBuf, written, start,
                   last_turn_completed, exitReason, leftAt>>

\* the client drops the connection of a request in flight
ClientDisconnect(r) ==
    /\ pc[r] \notin Final \cup {"idle"}
    /\ connected[r]
    /\ connected' = [connected EXCEPT ![r] = FALSE]
    /\ UNCHANGED asideVars
    /\ UNCHANGED <<now, CFG, active, pc, events, workdir, hard_cut, idle_after, proc, launches,
                   pipes, stdin, outBuf, outOpen, errBuf, errOpen, written, start,
                   last_turn_completed, exitReason, leftAt>>

\* a handler that waits: in readline() on an empty pipe the child holds, or in
\* stderr.read() on a pipe the child holds; or it has not begun, or has ended
Waiting(r) ==
    \/ pc[r] \in Final \cup {"idle"}
    \/ pc[r] = "STREAMING" /\ outBuf[r] = <<>> /\ outOpen[r]
    \/ pc[r] = "DRAINING_STDERR" /\ errOpen[r]

\* time passes while every handler waits; a handler's own steps take no time
Tick ==
    /\ now < MaxTime
    /\ \A r \in active : Waiting(r)
    /\ \E r \in active : pc[r] \notin Final \cup {"idle"}
    /\ now' = now + 1
    /\ UNCHANGED asideVars
    /\ UNCHANGED <<CFG, active, pc, connected, events, workdir, hard_cut, idle_after, proc,
                   launches, pipes, stdin, outBuf, outOpen, errBuf, errOpen, written,
                   start, last_turn_completed, exitReason, leftAt>>

Next ==
    \/ \E r \in active : \E p \in SessionPrompts : Messages(r, p)
    \/ \E r \in active : \E launch \in LaunchOutcomes, write \in {"ok", "fail"} :
            GenerateStart(r, launch, write)
    \/ \E r \in active : ReadLine(r)
    \/ \E r \in active : AfterYield(r)
    \/ \E r \in active : DrainStderr(r)
    \/ \E r \in active : \E l \in StreamLines : ProcWrite(r, l)
    \/ \E r \in active : \E c \in ErrChars : ProcWriteErr(r, c, MaxErr)
    \/ \E r \in active : ProcCloseStdout(r)
    \/ \E r \in active : ProcCloseStderr(r)
    \/ \E r \in active : ProcExit(r)
    \/ \E r \in active : ClientDisconnect(r)
    \/ Tick

Spec == Init /\ [][Next]_vars

\* ------------------------------------------------------------------ SpecPair
\* two requests in flight at once (threaded=True, line 222): each thread runs
\* its own messages() and generate(). Both children start, write hello and
\* turn.completed lines and exit; both cutoffs are switched on.
ShortTime == 2      \* the clock of SpecPair and SpecStderr runs 0..ShortTime
PairConfigs == {[CODEX_WORKDIR |-> <<>>, CODEX_MAX_RUN_SEC |-> 1,
                 CODEX_IDLE_AFTER_TURN_SEC |-> 0, RELAY_PRETTY_LOG |-> "1"]}
PairLines == {HelloLine, TurnLine}

InitPair == InitSession(Reqs, PairConfigs) /\ IdleTr /\ IdleCwd /\ IdleTok /\ IdleSw

NextPair ==
    \/ \E r \in active : Messages(r, <<>>)
    \/ \E r \in active : GenerateStart(r, "ok", "ok")
    \/ \E r \in active : ReadLine(r)
    \/ \E r \in active : AfterYield(r)
    \/ \E r \in active : DrainStderr(r)
    \/ \E r \in active : \E l \in PairLines : ProcWrite(r, l)
    \/ \E r \in active : ProcExit(r)
    \/ now < ShortTime /\ Tick

SpecPair == InitPair /\ [][NextPair]_vars

\* --------------------------------------------------------------- SpecStderr
\* one request whose child writes to stderr in long and short runs, blank or
\* not, so that the captured output passes the 2000 characters of line 205;
\* the stream ends by each of the three exits of the loop
ErrRuns == ErrChars \cup {Run("x", TailLen), Run(" ", TailLen)}

InitStderr == InitSession({1}, PairConfigs) /\ IdleTr /\ IdleCwd /\ IdleTok /\ IdleSw

NextStderr ==
    \/ \E r \in active : Messages(r, <<>>)
    \/ \E r \in active : GenerateStart(r, "ok", "ok")
    \/ \E r \in active : ReadLine(r)
    \/ \E r \in active : AfterYield(r)
    \/ \E r \in active : DrainStderr(r)
    \/ \E r \in active : \E l \in PairLines : ProcWrite(r, l)
    \/ \E r \in active : \E c \in ErrRuns : ProcWriteErr(r, c, MaxErr + 1)
    \/ \E r \in active : ProcExit(r)
    \/ now < ShortTime /\ Tick

SpecStderr == InitStderr /\ [][NextStderr]_vars

\* ---------------------------------------------------------- SpecTranslate
\* the loop body's translation of lines 163-190 applied to a few lines, in
\* pretty and in raw mode
MaxTrLen == 2
SeqsUpTo(S, n) == UNION {[1..k -> S] : k \in 0..n}

InitTranslate ==
    /\ InitSession({}, {Defaults}) /\ IdleCwd /\ IdleTok /\ IdleSw
    /\ trIn \in SeqsUpTo(Lines, MaxTrLen) \ {<<>>}
    /\ trPretty \in BOOLEAN
    /\ trOut = <<>>

TranslateLine ==
    /\ trIn # <<>>
    /\ trOut' = Append(trOut, [line |-> Head(trIn), res |-> translate(Head(trIn), trPretty)])
    /\ trIn' = Tail(trIn)
    /\ UNCHANGED <<trPretty, sessionVars, cwdVars, tokVars, swVars>>

NextTranslate == TranslateLine

SpecTranslate == InitTranslate /\ [][NextTranslate]_vars

\* ------------------------------------------------------------------ SpecCwd
\* _select_cwd on every prompt text of up to MaxPromptLen tokens, with
\* CODEX_WORKDIR unset, naming a directory, or naming none
Workdirs == {<<>>, <<"/work">>, <<"/gone">>}

InitCwd ==
    /\ InitSession({}, {Defaults}) /\ IdleTr /\ IdleTok /\ IdleSw
    /\ cwdPrompt \in SeqsUpTo(Tokens, MaxPromptLen)
    /\ cwdEnv \in Workdirs
    /\ cwdOut = [kind |-> "pending", path |-> <<>>]

SelectCwd ==
    /\ cwdOut.kind = "pending"
    /\ cwdOut' = select_cwd(cwdPrompt, cwdEnv)
    /\ UNCHANGED <<cwdPrompt, cwdEnv, sessionVars, trVars, tokVars>>
    /\ UNCHANGED swVars

NextCwd == SelectCwd

SpecCwd == InitCwd /\ [][NextCwd]_vars

\* --------------------------------------------------------------- SpecTokens
\* count_tokens(), lines 84-94. A request body is
\*   json        a JSON text; len is the length of its json.dumps() form, and
\*               truthy tells a value Python takes for true from {}, [], "",
\*               0, null and false
\*   unparsable  no JSON text: get_json(force=True, silent=True) returns None
\*   unreadable  reading the body raises (the client is gone, the body is
\*               over the size limit): the exception leaves get_json()
MaxBody == 140      \* characters of a serialised body
MinTokens == 32
FallbackTokens == 128
EmptyObjectLen == 2 \* len("{}")

TokBodies ==
    {[kind |-> "json", len |-> n, truthy |-> TRUE] : n \in 1..MaxBody}
    \cup {[kind |-> "json", len |-> n, truthy |-> FALSE] : n \in 1..5}
    \cup {[kind |-> k, len |-> 0, truthy |-> FALSE] : k \in {"unparsable", "unreadable"}}

TokReply(n) == [status |-> 200, input_tokens |-> n, output_tokens |-> 0]

count_tokens(b) ==
    IF b.kind = "unreadable" THEN TokReply(FallbackTokens)
    ELSE LET n == IF b.kind = "json" /\ b.truthy THEN b.len ELSE EmptyObjectLen
             toks == IF n \div 4 > MinTokens THEN n \div 4 ELSE MinTokens
         IN TokReply(toks)

InitTokens ==
    /\ InitSession({}, {Defaults}) /\ IdleTr /\ IdleCwd /\ IdleSw
    /\ tokBody \in TokBodies
    /\ tokOut = <<>>

CountTokens ==
    /\ tokOut = <<>>
    /\ tokOut' = <<count_tokens(tokBody)>>
    /\ UNCHANGED <<tokBody, sessionVars, trVars, cwdVars, swVars>>

NextTokens == CountTokens

SpecTokens == InitTokens /\ [][NextTokens]_vars

\* --------------------------------------------------------------- SpecSwitch
\* The profile switchers cc_env_switcher.py and tools/env_switcher.py, run one
\* after the other on the settings files of ~/.claude and ./.claude. A file
\* is its env map and meta.current_profile; a key without value is Absent.
MaxSwitches == 2    \* runs of a switcher

Absent == "<absent>"
ManagedKeys == {"ANTHROPIC_AUTH_TOKEN", "ANTHROPIC_BASE_URL", "API_TIMEOUT_MS",
                "ANTHROPIC_DEFAULT_HAIKU_MODEL", "ANTHROPIC_DEFAULT_SONNET_MODEL",
                "ANTHROPIC_DEFAULT_OPUS_MODEL"}
\* the further keys cc_env_switcher.py clears, lines 63-66
HelperKeys == {"ZAI_API_KEY", "GLM_API_KEY", "CLAUDE_CODE_API_KEY_HELPER_COMMAND",
               "CLAUDE_CODE_API_KEY_HELPER_TTL_MS"}
\* a key of the user's that no switcher names
UserKeys == {"EDITOR"}
EnvKeys == ManagedKeys \cup HelperKeys \cup UserKeys

EmptyEnv == [k \in EnvKeys |-> Absent]

\* SETTINGS_CANDIDATES, lines 23-28
PROJECT_LOCAL_SETTINGS_PATH == "./.claude/settings.local.json"
PROJECT_SETTINGS_PATH == "./.claude/settings.json"
GLOBAL_LOCAL_SETTINGS_PATH == "~/.claude/settings.local.json"
GLOBAL_SETTINGS_PATH == "~/.claude/settings.json"
SETTINGS_CANDIDATES == {PROJECT_LOCAL_SETTINGS_PATH, PROJECT_SETTINGS_PATH,
                        GLOBAL_LOCAL_SETTINGS_PATH, GLOBAL_SETTINGS_PATH}
\* LOCAL_SETTINGS_PATH of tools/env_switcher.py, line 12
LOCAL_SETTINGS_PATH == GLOBAL_LOCAL_SETTINGS_PATH

\* no file: _load() gives {} for it
NoFile == [exists |-> FALSE, env |-> EmptyEnv, profile |-> Absent]

\* dict.update(d) and dict.setdefault(k, v)
update(env, d) == [k \in EnvKeys |-> IF d[k] # Absent THEN d[k] ELSE env[k]]
setdefault(env, key, v) == [env EXCEPT ![key] = IF @ = Absent THEN v ELSE @]

ClaudeModels ==
    [k \in EnvKeys |->
        CASE k = "ANTHROPIC_DEFAULT_HAIKU_MODEL" -> "claude-haiku-4-5"
          [] k = "ANTHROPIC_DEFAULT_SONNET_MODEL" -> "claude-sonnet-4-5"
          [] k = "ANTHROPIC_DEFAULT_OPUS_MODEL" -> "claude-opus-4-1"
          [] OTHER -> Absent]

GlmEnv(key) ==
    [k \in EnvKeys |->
        CASE k = "ANTHROPIC_AUTH_TOKEN" -> key
          [] k = "ANTHROPIC_BASE_URL" -> "https://api.z.ai/api/anthropic"
          [] k = "API_TIMEOUT_MS" -> "3000000"
          [] k = "ANTHROPIC_DEFAULT_HAIKU_MODEL" -> "glm-4.5-air"
          [] k = "ANTHROPIC_DEFAULT_SONNET_MODEL" -> "glm-4.6"
          [] k = "ANTHROPIC_DEFAULT_OPUS_MODEL" -> "glm-4.6"
          [] OTHER -> Absent]

RelayEnv ==
    [k \in EnvKeys |->
        CASE k = "ANTHROPIC_BASE_URL" -> "http://127.0.0.1:9001"
          [] k = "ANTHROPIC_AUTH_TOKEN" -> "local-dev"
          [] OTHER -> ClaudeModels[k]]

ProfileName(mode) ==
    CASE mode = "claude" -> "claude"
      [] mode = "glm" -> "glm_zai"
      [] mode = "relay" -> "gpt_code_via_relay"

\* _wipe_env of tools/env_switcher.py, lines 30-40
tools_wipe_env(env) == [k \in EnvKeys |-> IF k \in ManagedKeys THEN Absent ELSE env[k]]
\* _wipe_env of cc_env_switcher.py, lines 53-70
wipe_env(env) ==
    [k \in EnvKeys |-> IF k \in ManagedKeys \cup HelperKeys THEN Absent ELSE env[k]]

\* the first of the values that is given and not empty, as Python's or-chain
FirstGiven(vals) ==
    LET given == {i \in 1..Len(vals) : vals[i] # Absent /\ vals[i] # ""}
    IN IF given = {} THEN Absent ELSE vals[CHOOSE i \in given : \A j \in given : i <= j]

\* the body of the loop of _apply_profile for one file, lines 91-141;
\* osenv is os.environ
apply_to_file(cfg, profile_name, mode, extra_env, osenv) ==
    LET env == update(wipe_env(cfg.env), extra_env)
        key == FirstGiven(<<extra_env["ZAI_API_KEY"], extra_env["GLM_API_KEY"],
                            env["ZAI_API_KEY"], env["GLM_API_KEY"],
                            osenv["ZAI_API_KEY"], osenv["GLM_API_KEY"]>>)
        set == CASE mode = "claude" ->
                      setdefault(setdefault(setdefault(env,
                          "ANTHROPIC_DEFAULT_HAIKU_MODEL",
                              ClaudeModels["ANTHROPIC_DEFAULT_HAIKU_MODEL"]),
                          "ANTHROPIC_DEFAULT_SONNET_MODEL",
                              ClaudeModels["ANTHROPIC_DEFAULT_SONNET_MODEL"]),
                          "ANTHROPIC_DEFAULT_OPUS_MODEL",
                              ClaudeModels["ANTHROPIC_DEFAULT_OPUS_MODEL"])
                 [] mode = "glm" ->
                      update(env, GlmEnv(IF key = Absent THEN "your_zai_api_key_here"
                                         ELSE key))
                 [] mode = "relay" -> update(env, RelayEnv)
    IN [exists |-> TRUE, env |-> set, profile |-> profile_name]

\* the health check of lines 80-83 (and of tools/env_switcher.py, line 75).
\* health is what the relay would answer: "ok" for status 200, "down" for any
\* other status and for no answer (_http_ok, lines 45-50). The relay is asked
\* for mode relay without --force alone ('and', 'not ... and not' cut short).
Probed(mode, force) == mode = "relay" /\ ~force
\* a switcher that asked nothing and wrote in any case
NeverRefused(mode, force, health) == FALSE
Refused(mode, force, health) == Probed(mode, force) /\ health = "down"

\* the files _apply_profile writes, lines 86-88
targets(F) ==
    IF \E p \in SETTINGS_CANDIDATES : F[p].exists
    THEN {p \in SETTINGS_CANDIDATES : F[p].exists}
    ELSE {GLOBAL_SETTINGS_PATH}

\* _apply_profile, lines 73-147
apply_profile(F, profile_name, mode, force_relay, health, extra_env, osenv) ==
    IF Refused(mode, force_relay, health) THEN F
    ELSE [p \in SETTINGS_CANDIDATES |->
             IF p \in targets(F)
             THEN apply_to_file(F[p], profile_name, mode, extra_env, osenv)
             ELSE F[p]]

\* the files _write of tools/env_switcher.py saves, lines 45-47
tools_targets(F) ==
    {GLOBAL_SETTINGS_PATH} \cup {p \in {LOCAL_SETTINGS_PATH} : F[p].exists}

\* set_claude, set_glm and set_relay of tools/env_switcher.py, lines 49-89:
\* the global file is loaded and changed, and _write saves that one content to
\* the global file and, if there is one, over the local file
tools_set(F, mode, force, health) ==
    IF Refused(mode, force, health) THEN F
    ELSE LET env == tools_wipe_env(F[GLOBAL_SETTINGS_PATH].env)
             set == CASE mode = "claude" -> update(env, ClaudeModels)
                      [] mode = "glm" -> update(env, GlmEnv("your_zai_api_key"))
                      [] mode = "relay" -> update(env, RelayEnv)
             s == [exists |-> TRUE, env |-> set, profile |-> ProfileName(mode)]
         IN [p \in SETTINGS_CANDIDATES |-> IF p \in tools_targets(F) THEN s ELSE F[p]]

Modes == {"claude", "glm", "relay"}
\* --force and the state of the relay, which matter for --relay alone
Forces(mode) == IF mode = "relay" THEN BOOLEAN ELSE {FALSE}
Healths(mode) == IF mode = "relay" THEN {"ok", "down"} ELSE {"ok"}
\* what --env gives: nothing, an API key, a model of the user's own
ExtraEnvs == {EmptyEnv, [EmptyEnv EXCEPT !["ZAI_API_KEY"] = "sk-extra"],
              [EmptyEnv EXCEPT !["ANTHROPIC_DEFAULT_OPUS_MODEL"] = "my-opus"]}
OsEnvs == {EmptyEnv, [EmptyEnv EXCEPT !["GLM_API_KEY"] = "sk-os"]}

\* a settings file as the user may have left it
UserEnv == [k \in EnvKeys |-> IF k \in ManagedKeys THEN "old"
                              ELSE IF k = "ZAI_API_KEY" THEN "sk-user"
                              ELSE IF k \in UserKeys THEN "vim" ELSE Absent]
OtherUserEnv == [EmptyEnv EXCEPT !["EDITOR"] = "nano"]
UserFile(env) == [exists |-> TRUE, env |-> env, profile |-> Absent]

NoSwitch == [tool |-> "none", mode |-> "none", force |-> FALSE, health |-> "ok",
             probed |-> FALSE, applied |-> FALSE, written |-> {}]

InitSwitch ==
    /\ InitSession({}, {Defaults}) /\ IdleTr /\ IdleCwd /\ IdleTok
    /\ files \in [SETTINGS_CANDIDATES -> {NoFile, UserFile(UserEnv), UserFile(OtherUserEnv)}]
    /\ before = files
    /\ lastSwitch = NoSwitch
    /\ switches = 0

\* one run of cc_env_switcher.py, main(), lines 186-208
SwitchCc(mode, force, health, extra_env, osenv) ==
    /\ switches < MaxSwitches
    /\ files' = apply_profile(files, ProfileName(mode), mode, force, health, extra_env, osenv)
    /\ before' = files
    /\ lastSwitch' = [tool |-> "cc", mode |-> mode, force |-> force, health |-> health,
                      probed |-> Probed(mode, force),
                      applied |-> ~Refused(mode, force, health),
                      written |-> IF Refused(mode, force, health) THEN {}
                                  ELSE targets(files)]
    /\ switches' = switches + 1
    /\ UNCHANGED <<sessionVars, trVars, cwdVars, tokVars>>

\* one run of tools/env_switcher.py, main(), lines 91-95
SwitchTools(mode, force, health) ==
    /\ switches < MaxSwitches
    /\ files' = tools_set(files, mode, force, health)
    /\ before' = files
    /\ lastSwitch' = [tool |-> "tools", mode |-> mode, force |-> force, health |-> health,
                      probed |-> Probed(mode, force),
                      applied |-> ~Refused(mode, force, health),
                      written |-> IF Refused(mode, force, health) THEN {}
                                  ELSE tools_targets(files)]
    /\ switches' = switches + 1
    /\ UNCHANGED <<sessionVars, trVars, cwdVars, tokVars>>

NextSwitch ==
    \/ \E mode \in Modes : \E force \in Forces(mode), health \in Healths(mode) :
          \E extra_env \in ExtraEnvs, osenv \in OsEnvs :
              SwitchCc(mode, force, health, extra_env, osenv)
    \/ \E mode \in Modes : \E force \in Forces(mode), health \in Healths(mode) :
          SwitchTools(mode, force, health)

SpecSwitch == InitSwitch /\ [][NextSwitch]_vars

\* ================================================================== claims
StartsWith(s, pre) == Len(s) >= Len(pre) /\ SubSeq(s, 1, Len(pre)) = pre
EndsWith(s, suf) == Len(s) >= Len(suf) /\ SubSeq(s, Len(s) - Len(suf) + 1, Len(s)) = suf
Names_(s) == [i \in 1..Len(s) |-> s[i].event]
Count(s, name) == Cardinality({i \in 1..Len(s) : s[i].event = name})
Framing == {"message_start", "content_block_start", "content_block_stop",
            "message_delta", "message_stop"}

\* generate() has run to its end, by return or by an exception, with the
\* client still there to read the stream
Ended(r) == pc[r] \in {"CLOSED", "ABORTED"}

\* the events are an initial part of message_start, content_block_start,
\* content_block_delta*, content_block_stop, message_delta, message_stop
OrderedPrefix(s) ==
    LET n == Len(s)
        d == Count(s, "content_block_delta")
        head == SubSeq(Names_(Opening), 1, IF n < 2 THEN n ELSE 2)
        rest == IF n <= 2 + d THEN <<>> ELSE SubSeq(Names_(s), 3 + d, n)
    IN /\ StartsWith(Names_(s), head)
       /\ \A i \in 1..n : s[i].event = "content_block_delta" => i > 2 /\ i <= 2 + d
       /\ Len(rest) <= 3 /\ rest = SubSeq(Names_(Closing), 1, Len(rest))

\* ------------------------------------------------ what holds of the session
\* (invariants of Spec that the claims below are read against)

\* the events of every request are an initial part of the fixed sequence
EventsOrdered == \A r \in active : OrderedPrefix(events[r])

\* a stream that reaches CLOSED is framed, each framing event once
ClosedIsFramed ==
    \A r \in active :
        pc[r] = "CLOSED" =>
            /\ StartsWith(events[r], Opening) /\ EndsWith(events[r], Closing)
            /\ \A e \in Framing : Count(events[r], e) = 1

\* the idle exit is taken in pretty mode only, idle_after or more after the marker
IdleExitNotEarly ==
    \A r \in active :
        exitReason[r] = "idle" =>
            pretty(CFG) /\ leftAt[r] - last_turn_completed[r] >= idle_after[r]

\* the hard exit is taken with the cutoff enabled only, and past it
HardExitPastCutoff ==
    \A r \in active :
        exitReason[r] = "hard" => hard_cut[r] > 0 /\ leftAt[r] - start[r] > hard_cut[r]

\* Popen is called at most once for a request
OneLaunch == \A r \in active : launches[r] <= 1

\* C1: whatever the subprocess did (end of output, a launch failure of any
\* kind, a failed stdin write, either cutoff), the events of a stream that has
\* ended begin with message_start, content_block_start and end with
\* content_block_stop, message_delta, message_stop.
C1_FramedWhateverTheOutcome ==
    \A r \in active :
        Ended(r) => StartsWith(events[r], Opening) /\ EndsWith(events[r], Closing)

\* C2: once the hard cutoff has ended the read loop of a request whose
\* subprocess keeps running with its streams open, the closing events follow
\* within Grace ticks: closing waits neither for the exit of the subprocess nor
\* for the end of its stderr.
C2_HardCutoffClosesInTime ==
    \A r \in active :
        (exitReason[r] = "hard" /\ connected[r] /\ proc[r] = "running" /\ errOpen[r]
         /\ now - leftAt[r] > Grace)
            => pc[r] = "CLOSED"

\* C3: in pretty mode, after a turn.completed line behind which the running
\* subprocess writes nothing more, the stream does not close while fewer than
\* idle_after ticks have passed since that line, and it is not still in the
\* read loop more than Grace ticks after idle_after has passed.
C3_IdleClosesAfterSilence ==
    \A r \in active :
        /\ exitReason[r] = "idle" => leftAt[r] - last_turn_completed[r] >= idle_after[r]
        /\ (pretty(CFG) /\ pc[r] = "STREAMING" /\ connected[r] /\ proc[r] = "running"
            /\ outOpen[r] /\ outBuf[r] = <<>> /\ last_turn_completed[r] # None
            /\ events[r][Len(events[r])] = Delta(TurnMarker, TRUE, <<>>))
               => now - last_turn_completed[r] <= idle_after[r] + Grace

\* C4: a request that launched a subprocess and has reached CLOSED has released
\* it: the subprocess does not run any more and the relay holds none of its pipes.
C4_ReleasedWhenClosed ==
    \A r \in active :
        (pc[r] = "CLOSED" /\ proc[r] # "none") => proc[r] # "running" /\ pipes[r] = {}

\* C5: when the launch fails, the stream is message_start, content_block_start,
\* one content_block_delta with the agent-not-available text and the three
\* closing events, and generate() returns (no failure of the response).
C5_LaunchFailureStream ==
    \A r \in active :
        (pc[r] \in Final /\ connected[r] /\ launches[r] = 1 /\ proc[r] = "none")
            => /\ pc[r] = "CLOSED"
               /\ events[r] = Opening \o <<Delta(NotFoundText, FALSE, <<>>)>> \o Closing

\* C6: the events of a stream keep the fixed order, every content_block_delta
\* between content_block_start and content_block_stop and nothing after
\* message_stop, and a stream that has ended holds each of the five framing
\* events exactly once.
C6_FixedOrderEachOnce ==
    \A r \in active :
        /\ OrderedPrefix(events[r])
        /\ Ended(r) => \A e \in Framing : Count(events[r], e) = 1

\* C7: no request has ended by the disconnect of its client while its
\* subprocess still runs.
C7_NoOrphanAfterDisconnect ==
    \A r \in active : pc[r] = "CANCELLED" => proc[r] # "running"

\* C9: with the hard cutoff enabled, a request is out of the read loop at the
\* latest Grace ticks after the cutoff has passed, also when the subprocess
\* writes nothing and keeps its stdout open.
C9_ReadInterruptedByCutoff ==
    \A r \in active :
        (hard_cut[r] > 0 /\ connected[r] /\ pc[r] \in Reading)
            => now - start[r] <= hard_cut[r] + Grace

\* what C8 says one non-empty line becomes in pretty mode
Claimed8(l) ==
    IF l.json # "object" THEN l.raw
    ELSE IF l.typ = "item.completed" /\ l.itemType \in Conversational /\ l.textKind = "str"
    THEN l.text
    ELSE IF l.typ = "turn.completed" THEN TurnMarker
    ELSE l.typ

\* C8: in pretty mode every non-empty line becomes exactly one fragment: the
\* line itself when it is no JSON object event, the text of an item.completed
\* event with an agent_message or reasoning item, [turn.completed] for a
\* turn.completed event, and the kind name for an event of any other kind.
C8_PrettyTranslation ==
    trPretty =>
        \A i \in 1..Len(trOut) :
            trOut[i].line.raw # "" =>
                /\ trOut[i].res.out = "delta"
                /\ trOut[i].res.text = Claimed8(trOut[i].line)

\* the prompt is nothing but one marker line naming path p
NamesOnly(prompt, p) == prompt = <<Marker, " ">> \o p
NoMarker(prompt) == \A i \in 1..Len(prompt) : prompt[i] # Marker
Default10 == IF cwdEnv # <<>> /\ cwdEnv \in OnDisk THEN cwdEnv ELSE ProcessCwd

\* C10: _select_cwd never raises and returns the path the prompt names when it
\* is on disk, else CODEX_WORKDIR when it is set and on disk, else the
\* directory of the process.
C10_SelectCwdTotalAndOrdered ==
    cwdOut.kind # "pending" =>
        /\ cwdOut.kind = "path"
        /\ \A n \in Names :
              NamesOnly(cwdPrompt, <<n>>) =>
                  cwdOut.path = IF <<n>> \in OnDisk THEN <<n>> ELSE Default10
        /\ NoMarker(cwdPrompt) => cwdOut.path = Default10

\* ------------------------------------------------------------------ C11
\* everything generate() and messages() hold for request r
Own(r) == <<pc[r], connected[r], events[r], workdir[r], hard_cut[r], idle_after[r],
            proc[r], launches[r], pipes[r], stdin[r], outBuf[r], outOpen[r],
            errBuf[r], errOpen[r], written[r], start[r], last_turn_completed[r],
            exitReason[r], leftAt[r]>>

TurnDelta == Delta(TurnMarker, TRUE, <<>>)
SawTurn(r) == \E i \in 1..Len(events[r]) : events[r][i] = TurnDelta

\* a request's marker time and cutoffs come from its own stream and clock
OwnDecisions ==
    \A r \in active :
        /\ last_turn_completed[r] # None => SawTurn(r)
        /\ exitReason[r] = "idle" =>
              SawTurn(r) /\ leftAt[r] - last_turn_completed[r] >= idle_after[r]
        /\ exitReason[r] = "hard" =>
              hard_cut[r] > 0 /\ leftAt[r] - start[r] > hard_cut[r]

\* no step changes what two requests hold
OneRequestPerStep ==
    \A r, q \in active : r # q => Own(r)' = Own(r) \/ Own(q)' = Own(q)

\* C11: two requests in flight at once have each their own subprocess, start
\* time and last-turn-completed; a step of one (a line read, a turn.completed,
\* a cutoff) leaves everything of the other as it was, and a request's cutoff
\* is decided on its own start time and its own turn.completed marker.
C11_RequestsIsolated == []OwnDecisions /\ [][OneRequestPerStep]_vars

\* request 1 closed on its idle cutoff while request 2, which has emitted a
\* fragment and seen no turn.completed, streams on
C11_Witness ==
    /\ pc[1] = "CLOSED" /\ exitReason[1] = "idle"
    /\ pc[2] \in Reading /\ Len(events[2]) > 2
    /\ last_turn_completed[2] = None

\* ------------------------------------------------------------------ C12
\* C12: count_tokens never fails on a malformed body: every body is answered
\* with status 200, and a body that cannot be parsed with input_tokens 128 and
\* output_tokens 0.
C12_UnparsableGives128 ==
    tokOut # <<>> =>
        /\ tokOut[1].status = 200
        /\ tokBody.kind = "unparsable" =>
              tokOut[1].input_tokens = 128 /\ tokOut[1].output_tokens = 0

\* ------------------------------------------------------------------ C13
\* the read loop is over, or the handler is
Settled(r) == pc[r] \in Final \cup {"DRAINING_STDERR"}

NoRelaunch ==
    \A r \in active :
        /\ launches[r] = 1 => launches'[r] = 1
        /\ pc[r] # "idle" /\ pc[r] # "STARTING" => pc'[r] # "STARTING"
        /\ Settled(r) => pc'[r] \notin {"STARTING", "STREAMING", "YIELDED"}

\* C13: a request makes at most one launch attempt: after a launch failure, a
\* failed write of the prompt, a cutoff or the end of the output the handler
\* never calls Popen again and never comes back to STARTING or STREAMING.
C13_OneLaunchNoRetry == [](\A r \in active : launches[r] <= 1) /\ [][NoRelaunch]_vars

\* a stream that was cut by the hard cutoff and closed, one launch behind it
C13_Witness ==
    \E r \in active : pc[r] = "CLOSED" /\ exitReason[r] = "hard" /\ launches[r] = 1

\* ------------------------------------------------------------------ C14
\* this step ends the processing of a line of request r: the blank line was
\* dropped or the generator came back from the yield, and the checks of lines
\* 192-200 were made
Checked(r) ==
    /\ pc[r] \in Reading /\ pc'[r] \in {"STREAMING", "DRAINING_STDERR"}
    /\ pc[r] = "YIELDED" \/ Len(outBuf'[r]) < Len(outBuf[r])

HardDue(r) == hard_cut[r] > 0 /\ now - start[r] > hard_cut[r]

HardCutoffStep ==
    \A r \in active :
        /\ Checked(r) => (exitReason'[r] = "hard" <=> HardDue(r))
        /\ exitReason[r] # "hard" /\ exitReason'[r] = "hard" =>
              Checked(r) /\ pc'[r] = "DRAINING_STDERR"
        /\ exitReason[r] = "hard" =>
              /\ exitReason'[r] = "hard" /\ outBuf'[r] = outBuf[r]
              /\ pc'[r] \notin Reading

\* C14: the hard cutoff ends STREAMING exactly when, after a line has been
\* processed, it is enabled and the time since start is greater than the
\* configured seconds; after it no stdout line is read; and with
\* CODEX_MAX_RUN_SEC zero or negative it never ends the loop.
C14_HardCutoff ==
    /\ [](\A r \in active : /\ exitReason[r] = "hard" => pc[r] \notin Reading
                            /\ CFG.CODEX_MAX_RUN_SEC <= 0 => exitReason[r] # "hard")
    /\ [][HardCutoffStep]_vars

\* a stream closed after the hard cutoff with a line of the child left unread
C14_Witness ==
    \E r \in active : pc[r] = "CLOSED" /\ exitReason[r] = "hard" /\ outBuf[r] # <<>>

\* ------------------------------------------------------------------ C15
\* the idle cutoff as claimed: taken only past the idle seconds
C15_IdleOnlyPastIdleSeconds ==
    \A r \in active :
        exitReason[r] = "idle" =>
            SawTurn(r) /\ leftAt[r] - last_turn_completed[r] > idle_after[r]

IdleDue(r, ltc) == ltc # None /\ now - ltc >= idle_after[r]

IdleCutoffStep ==
    \A r \in active :
        \* the exit is taken where the check of line 198 holds and the hard
        \* cutoff, tested first, does not
        /\ Checked(r) =>
              (exitReason'[r] = "idle" <=>
                   ~HardDue(r) /\ IdleDue(r, last_turn_completed'[r]))
        /\ exitReason[r] # "idle" /\ exitReason'[r] = "idle" => Checked(r)
        \* the marker time moves when a turn.completed line is taken from the
        \* pipe, to the time of that step, and at no other step
        /\ last_turn_completed'[r] # last_turn_completed[r] =>
              /\ last_turn_completed'[r] = now
              /\ pc[r] = "STREAMING" /\ outBuf[r] # <<>>
              /\ translate(Head(outBuf[r]), pretty(CFG)).turn
        /\ /\ pc[r] = "STREAMING" /\ pc'[r] # pc[r] /\ outBuf[r] # <<>>
           /\ translate(Head(outBuf[r]), pretty(CFG)).turn
           => last_turn_completed'[r] = now

\* C15 (amended): the idle cutoff ends STREAMING only if a turn.completed
\* marker has been seen in this request and the time since the most recent
\* one is at least the idle seconds (which are at least 1); it never fires
\* before the first turn.completed, and each later one restarts the measure.
C15_IdleCutoff ==
    /\ [](\A r \in active :
            exitReason[r] = "idle" =>
                /\ pretty(CFG) /\ SawTurn(r) /\ idle_after[r] >= 1
                /\ last_turn_completed[r] # None
                /\ leftAt[r] - last_turn_completed[r] >= idle_after[r])
    /\ [][IdleCutoffStep]_vars

\* a stream closed by the idle cutoff at the very limit
C15_Witness ==
    \E r \in active :
        /\ pc[r] = "CLOSED" /\ exitReason[r] = "idle"
        /\ leftAt[r] - last_turn_completed[r] = idle_after[r]

\* ------------------------------------------------------------------ C16
\* this step takes a line of request r from the pipe
LineStep(r) ==
    pc[r] = "STREAMING" /\ outBuf[r] # <<>> /\ Len(outBuf'[r]) < Len(outBuf[r])

\* the step appends one content_block_delta that ends with a newline, and the
\* handler stands at the yield, its cutoffs not yet looked at
OneDelta(r) ==
    /\ Len(events'[r]) = Len(events[r]) + 1
    /\ SubSeq(events'[r], 1, Len(events[r])) = events[r]
    /\ events'[r][Len(events'[r])].event = "content_block_delta"
    /\ events'[r][Len(events'[r])].nl
    /\ pc'[r] = "YIELDED"
    /\ exitReason'[r] = exitReason[r]

\* C16: during STREAMING, with the client there to read, every non-empty line
\* read from the subprocess produces exactly one content_block_delta whose
\* text ends with a newline, before the next line is read and before the
\* cutoffs are evaluated for it, and a blank line produces no event.
C16_OneDeltaPerLine ==
    [][\A r \in active :
          LineStep(r) /\ connected[r] =>
              IF Head(outBuf[r]).raw # "" THEN OneDelta(r)
              ELSE events'[r] = events[r]]_vars

\* ------------------------------------------------------------------ C17
\* the number of characters of a captured output
RECURSIVE CharLen(_)
CharLen(s) == IF s = <<>> THEN 0 ELSE s[1].n + CharLen(Tail(s))

\* t is what s ends with; the first run of t may be a part of a run of s
RECURSIVE IsSuffix(_, _)
IsSuffix(t, s) ==
    \/ t = <<>>
    \/ /\ s # <<>> /\ t[Len(t)].ch = s[Len(s)].ch
       /\ IF t[Len(t)].n = s[Len(s)].n
          THEN IsSuffix(SubSeq(t, 1, Len(t) - 1), SubSeq(s, 1, Len(s) - 1))
          ELSE t[Len(t)].n < s[Len(s)].n /\ Len(t) = 1

\* the stderr fragments of a stream, by position
StderrFrags(r) == {i \in 1..Len(events[r]) : events[r][i].text = StderrMarker}

\* the stream of a launched subprocess was carried to its closing events
Drained(r) == pc[r] = "CLOSED" /\ proc[r] # "none"

\* the stderr fragment as claimed: there if and only if the child wrote
\* anything to stderr
C17_FragmentIffNonEmpty ==
    \A r \in active : Drained(r) => (StderrFrags(r) # {} <=> errBuf[r] # <<>>)

\* C17 (amended): when the loop has ended by any of its three exits and the
\* stream is carried to its closing events, at most one stderr fragment has
\* been emitted: if and only if the last 2000 characters of the captured
\* error output hold a character that is no white space; it carries those
\* last (at most 2000) characters behind the marker and stands after every
\* stdout fragment, right before content_block_stop.
C17_StderrFragment ==
    \A r \in active :
        Drained(r) =>
            /\ exitReason[r] \in {"eof", "hard", "idle"}
            /\ Cardinality(StderrFrags(r)) <= 1
            /\ StderrFrags(r) = {} => ~NonBlank(LastChars(errBuf[r], TailLen))
            /\ \A i \in StderrFrags(r) :
                  /\ i = Len(events[r]) - Len(Closing)
                  /\ NonBlank(events[r][i].tail)
                  /\ IsSuffix(events[r][i].tail, errBuf[r])
                  /\ CharLen(events[r][i].tail) =
                        IF CharLen(errBuf[r]) > TailLen THEN TailLen ELSE CharLen(errBuf[r])

\* a closed stream whose stderr fragment is cut to the last 2000 characters of
\* a longer output, after a stdout fragment
C17_Witness ==
    \E r \in active :
        /\ Drained(r) /\ CharLen(errBuf[r]) > TailLen
        /\ \E i \in StderrFrags(r) : i > 3 /\ CharLen(events[r][i].tail) = TailLen

\* ------------------------------------------------------------------ C18
\* the prompt was dealt with before the loop: written and the pipe closed, or
\* the write failed (and the relay's end of the pipe is still open)
PromptFedBeforeLoop ==
    \A r \in active :
        /\ pc[r] \in Reading => proc[r] # "none"
        /\ proc[r] # "none" =>
              /\ stdin[r] \in {"closed", "failed"}
              /\ stdin[r] = "closed" => "stdin" \notin pipes[r]
        /\ pc[r] = "CLOSED" /\ stdin[r] = "failed" => EndsWith(events[r], Closing)

WriteStep ==
    \A r \in active :
        \* the step that launches also feeds the prompt and enters the loop,
        \* whether the write succeeds or not
        /\ proc[r] = "none" /\ proc'[r] # "none" =>
              pc'[r] = "STREAMING" /\ stdin'[r] # "none"
        \* one write: the outcome stays
        /\ stdin[r] # "none" => stdin'[r] = stdin[r]
        /\ stdin'[r] # stdin[r] => proc[r] = "none" /\ proc'[r] # "none"

\* C18: after a successful launch the prompt is written to the child's stdin
\* once and the pipe closed before the read loop starts; a failed write is not
\* fatal: the handler still enters STREAMING, reads what the child writes and
\* ends the stream with the closing events.
C18_PromptWrittenOnce == []PromptFedBeforeLoop /\ [][WriteStep]_vars

\* the write failed, yet a line of the child was forwarded and the stream
\* closed
C18_Witness ==
    \E r \in active :
        /\ pc[r] = "CLOSED" /\ stdin[r] = "failed"
        /\ Count(events[r], "content_block_delta") > 0

\* ------------------------------------------------------------------ C19
RawTurnDelta == Delta(TurnLine.raw, TRUE, <<>>)

RawModeState ==
    \A r \in active :
        /\ last_turn_completed[r] = None
        /\ ~SawTurn(r)
        /\ exitReason[r] \in {"none", "eof", "hard"}
        /\ pc[r] \in {"DRAINING_STDERR", "CLOSED"} /\ proc[r] # "none" =>
              exitReason[r] \in {"eof", "hard"}
        /\ pc[r] = "ABORTED" => proc[r] = "none"

RawModeStep ==
    \A r \in active :
        LineStep(r) /\ connected[r] /\ Head(outBuf[r]) = TurnLine =>
            OneDelta(r) /\ events'[r][Len(events'[r])] = RawTurnDelta

\* C19: in raw mode (RELAY_PRETTY_LOG other than "1") a turn.completed line is
\* emitted as it is, not as the marker, and is never recorded as
\* last-turn-completed, so the idle cutoff never fires: the loop ends only at
\* the end of the output or by the hard cutoff.
C19_RawModeNoIdleCutoff ==
    /\ [](~pretty(CFG) => RawModeState)
    /\ [][~pretty(CFG) => RawModeStep]_vars

\* raw mode: a turn.completed line went out as it was, and the stream ran on
\* for the idle seconds and more until the output ended
C19_Witness ==
    \E r \in active :
        /\ ~pretty(CFG) /\ pc[r] = "CLOSED" /\ exitReason[r] = "eof"
        /\ \E i \in 1..Len(events[r]) : events[r][i] = RawTurnDelta
        /\ leftAt[r] - start[r] > idle_after[r]

\* ------------------------------------------------------------------ C20
\* the env a profile stands for, the API key of glm being the one chosen
ProfileEnv(mode, e) ==
    CASE mode = "claude" -> ClaudeModels
      [] mode = "glm" -> GlmEnv(e["ANTHROPIC_AUTH_TOKEN"])
      [] mode = "relay" -> RelayEnv

\* C20: after a switch is applied to a settings file, the six managed keys of
\* its env and meta.current_profile are those of that profile and nothing
\* else, and every env key outside the six managed ones is as it was in that
\* file before the switch.
C20_LastProfileOnly ==
    lastSwitch.applied =>
        \A p \in lastSwitch.written :
            /\ files[p].profile = ProfileName(lastSwitch.mode)
            /\ \A k \in ManagedKeys :
                  files[p].env[k] = ProfileEnv(lastSwitch.mode, files[p].env)[k]
            /\ \A k \in EnvKeys \ ManagedKeys : files[p].env[k] = before[p].env[k]

\* ------------------------------------------------------------------ C21
\* the files a relay switch wrote hold the relay profile
RelayWritten ==
    \A p \in lastSwitch.written :
        /\ files[p].exists
        /\ files[p].profile = ProfileName("relay")
        /\ \A k \in {"ANTHROPIC_BASE_URL", "ANTHROPIC_AUTH_TOKEN"} :
              files[p].env[k] = RelayEnv[k]

\* C21: a switch to the relay profile without --force while the health check
\* does not answer 200 leaves every settings file as it was (no env key and
\* no meta.current_profile is written); with --force the health check is not
\* made and the profile is written, whatever the relay would have answered.
C21_RelayNeedsHealthOrForce ==
    lastSwitch.mode = "relay" =>
        /\ ~lastSwitch.force /\ lastSwitch.health = "down" =>
              files = before /\ ~lastSwitch.applied /\ lastSwitch.written = {}
        /\ lastSwitch.force =>
              /\ ~lastSwitch.probed /\ lastSwitch.applied
              /\ lastSwitch.written # {} /\ RelayWritten

\* a relay switch without --force was refused, and a file keeps the glm
\* profile of the switch before it
C21_Witness ==
    /\ lastSwitch.mode = "relay" /\ ~lastSwitch.force /\ lastSwitch.health = "down"
    /\ \E p \in SETTINGS_CANDIDATES : files[p].profile = ProfileName("glm")

====
